---- MODULE Spec2Model ----
(***************************************************************************)
(* A model of glm, the GitHub label manager command line (src/glm/core.py). *)
(* One invocation of the program is one run of a command handler; the      *)
(* token file is the only state that survives from one run to the next.    *)
(* Text is modelled as TLA+ strings (joined with \o); the text the program *)
(* inspects character by character (the answer typed at the prompt, the    *)
(* token and the token file) is a sequence of one-character strings.       *)
(* The leading icons of the messages are left out of the message text.     *)
(***************************************************************************)
EXTENDS Integers, Sequences, FiniteSets, TLC

VARIABLES
    token_file,   \* the file at __token_file__: [exists, data]
    last_auth,    \* history: <<>> or <<[token, before]>>, the token of the
                  \* most recent auth run and the file it found
    pc,           \* position of the running process
    cmd,          \* the subcommand argparse dispatched to
    args,         \* the parsed arguments
    token,        \* <<>> or <<t>>: the value get_access_token() returned
    stdin,        \* the lines read by input(), as typed
    stdout,       \* the texts written to standard output, in order
    requests,     \* the HTTP requests sent by this run, in order
    response,     \* <<>> or <<r>>: the response the request returned
    exit_code     \* the exit status once pc is "done" or "crashed"

vars == <<token_file, last_auth, pc, cmd, args, token, stdin, stdout,
          requests, response, exit_code>>

-----------------------------------------------------------------------------
(* Bounds of the model *)

MaxWords == 2
MaxTokenLen == 1
MaxPrompts == 2
MaxErrors == 2
MaxLabels == 2

(* Status codes the handlers compare against *)

HTTP_OK == 200
HTTP_CREATED == 201
HTTP_NO_CONTENT == 204
HTTP_NOT_FOUND == 404

-----------------------------------------------------------------------------
(* Input domains *)

RECURSIVE SeqsUpTo(_, _)
SeqsUpTo(S, n) ==
    IF n = 0 THEN {<<>>}
    ELSE LET shorter == SeqsUpTo(S, n - 1)
         IN  shorter \cup {Append(s, x) : s \in shorter, x \in S}

(* the first n of a pool of values, for every n from lo to hi *)
Prefixes(pool, lo, hi) == {SubSeq(pool, 1, n) : n \in lo..hi}

Repos == {"octo/repo"}
NameLists ==
    Prefixes(<<"good", "first", "issue", "now">>, 1, MaxWords)
NewNameLists ==
    Prefixes(<<"help", "wanted", "soon", "please">>, 1, MaxWords)
Colors == {"", "ff0000"}
TokenChars == {"a", "b"}
Tokens == SeqsUpTo(TokenChars, MaxTokenLen)

Choices ==
    { <<>>, <<"n">>, <<"N">>, <<"n", "o">>, <<"N", "O">>, <<"N", "o">>,
      <<"y">>, <<"Y">>, <<"y", "e", "s">>, <<"Y", "E", "S">>,
      <<"Y", "e", "s">>, <<"o", "k">>, <<" ", "y">> }

None == <<>>
Some(v) == <<v>>

DefaultArgs ==
    [ repo |-> "", name |-> None, color |-> None, label_name |-> <<>>,
      force |-> FALSE, show_colors |-> FALSE, token |-> <<>> ]

AuthArgs == { [DefaultArgs EXCEPT !.token = t] : t \in Tokens }

ListArgs ==
    { [DefaultArgs EXCEPT !.repo = r, !.show_colors = s] :
        r \in Repos, s \in BOOLEAN }

CreateArgs ==
    { [DefaultArgs EXCEPT !.repo = r, !.name = Some(n), !.color = Some(c)] :
        r \in Repos, n \in NameLists, c \in Colors }

DeleteArgs ==
    { [DefaultArgs EXCEPT !.repo = r, !.name = Some(n), !.force = f] :
        r \in Repos, n \in NameLists, f \in BOOLEAN }

UpdateArgs ==
    { [DefaultArgs EXCEPT !.repo = r, !.label_name = l, !.name = n,
                          !.color = c] :
        r \in Repos, l \in NameLists,
        n \in {None} \cup {Some(x) : x \in NewNameLists},
        c \in {None} \cup {Some(x) : x \in Colors} }

ArgsOf(c) ==
    CASE c = "auth" -> AuthArgs
      [] c = "list" -> ListArgs
      [] c = "create" -> CreateArgs
      [] c = "delete" -> DeleteArgs
      [] c = "update" -> UpdateArgs

Commands == {"auth", "list", "create", "delete", "update"}

-----------------------------------------------------------------------------
(* Text helpers *)

RECURSIVE Join(_)
Join(words) ==
    IF words = <<>> THEN ""
    ELSE IF Len(words) = 1 THEN words[1]
    ELSE words[1] \o " " \o Join(Tail(words))

LowerChar(ch) ==
    CASE ch = "N" -> "n"
      [] ch = "O" -> "o"
      [] ch = "Y" -> "y"
      [] ch = "E" -> "e"
      [] ch = "S" -> "s"
      [] OTHER -> ch

Lower(s) == [i \in DOMAIN s |-> LowerChar(s[i])]

RECURSIVE Spaces(_)
Spaces(n) == IF n <= 0 THEN "" ELSE " " \o Spaces(n - 1)

Center(s, width) ==
    LET marg == width - Len(s)
        left == (marg \div 2) + (IF marg % 2 = 1 /\ width % 2 = 1 THEN 1 ELSE 0)
    IN  IF marg <= 0 THEN s
        ELSE Spaces(left) \o s \o Spaces(marg - left)

(* Python truthiness of an optional string and of an optional list *)
TruthyStr(opt) == opt # None /\ opt[1] # ""
TruthyList(opt) == opt # None /\ opt[1] # <<>>

-----------------------------------------------------------------------------
(* The remote service: the responses a request can be answered with *)

Labels == { [name |-> n, color |-> c] : n \in {"bug", "enhancement"},
                                         c \in {"ff0000"} }

ValidationErrors ==
    << [resource |-> "Label", field |-> "name", code |-> "already_exists"],
       [resource |-> "Label", field |-> "color", code |-> "invalid"],
       [resource |-> "Label", field |-> "name", code |-> "invalid"],
       [resource |-> "Label", field |-> "color", code |-> "missing_field"] >>

NoBody == [kind |-> "none", items |-> <<>>, message |-> None, errors |-> <<>>]
ArrayBody(ls) == [NoBody EXCEPT !.kind = "array", !.items = ls]
ObjectBody(m, es) == [NoBody EXCEPT !.kind = "object", !.message = m,
                                    !.errors = es]

ErrorMessages == {"Not Found", "Validation Failed"}

(* the error object the service answers a status with *)
ErrorOf(status) ==
    ObjectBody(Some(CASE status = 401 -> "Bad credentials"
                      [] status = HTTP_NOT_FOUND -> "Not Found"
                      [] OTHER -> "Server Error"), <<>>)

ErrorBodies ==
    { ObjectBody(m, es) :
        m \in {None} \cup {Some(x) : x \in ErrorMessages},
        es \in Prefixes(ValidationErrors, 0, MaxErrors) }

LabelBodies == { ObjectBody(None, <<>>) }

ListResponses ==
    { [status |-> HTTP_OK, body |-> ArrayBody(ls)] :
        ls \in SeqsUpTo(Labels, MaxLabels) }
    \cup { [status |-> s, body |-> ErrorOf(s)] :
             s \in {401, HTTP_NOT_FOUND, 500} }

CreateResponses ==
    { [status |-> HTTP_CREATED, body |-> b] : b \in LabelBodies }
    \cup { [status |-> s, body |-> b] :
             s \in {HTTP_OK, 401, 422}, b \in ErrorBodies }

DeleteResponses ==
    { [status |-> HTTP_NO_CONTENT, body |-> NoBody] }
    \cup { [status |-> HTTP_OK, body |-> NoBody] }
    \cup { [status |-> s, body |-> ErrorOf(s)] :
             s \in {401, HTTP_NOT_FOUND, 500} }

UpdateResponses ==
    { [status |-> HTTP_OK, body |-> b] : b \in LabelBodies }
    \cup { [status |-> s, body |-> b] :
             s \in {HTTP_CREATED, HTTP_NOT_FOUND, 422}, b \in ErrorBodies }

(* len(res) of a decoded body: items of an array, keys of an object *)
BodyLen(body) ==
    IF body.kind = "array" THEN Len(body.items)
    ELSE (IF body.message # None THEN 1 ELSE 0)
         + (IF body.errors # <<>> THEN 1 ELSE 0)

(* 'Validation Failed' in res.get('message', '') *)
IsValidationFailed(body) ==
    body.message # None /\ body.message[1] \in {"Validation Failed"}

-----------------------------------------------------------------------------
(* Collaborators outside core.py *)

github_url == "https://api.github.com"

(* utils.get_access_token(): reads and trims the token file; fails when   *)
(* the file does not exist or is empty.                                   *)
IsSpace(ch) == ch \in {" ", "\n", "\t"}

RECURSIVE LStrip(_)
LStrip(s) == IF s # <<>> /\ IsSpace(Head(s)) THEN LStrip(Tail(s)) ELSE s

RECURSIVE RStrip(_)
RStrip(s) ==
    IF s # <<>> /\ IsSpace(s[Len(s)]) THEN RStrip(SubSeq(s, 1, Len(s) - 1))
    ELSE s

Strip(s) == RStrip(LStrip(s))

get_access_token ==
    IF token_file.exists /\ token_file.data # <<>>
    THEN [ok |-> TRUE, token |-> Strip(token_file.data)]
    ELSE [ok |-> FALSE, token |-> <<>>]

MsgMissingCredentials == "No access token found, run glm auth <access token>"

(* utils.parse_validation_error(name, error): one line per error *)
parse_validation_error(name, error) ==
    IF error.code = "already_exists"
    THEN "The label " \o name \o " already exists"
    ELSE "The " \o error.field \o " of " \o name \o " is " \o error.code

-----------------------------------------------------------------------------
(* Messages of core.py *)

MsgAuthStored == "Authentication stored!"
MsgNoLabels == "No labels found"
MsgCreated == "Label successfully created"
MsgCreateFailed == "Failed to create label."
MsgRemoved == "Label successfully removed"
MsgNotExist(name, repo) ==
    "The label '" \o name \o "' doesn't exist in " \o repo \o "."
MsgUsage == "You must pass either a --name and/or --color"
MsgUpdated == "Label successfully updated"
MsgUpdateFailed == "Failed to update label."
Question(name) == "Are you sure you want to delete '" \o name \o "'?"
Prompt == " [y/N] "

-----------------------------------------------------------------------------
(* The process *)

Init ==
    /\ token_file = [exists |-> FALSE, data |-> <<>>]
    /\ last_auth = None
    /\ pc = "idle"
    /\ cmd = "none"
    /\ args = DefaultArgs
    /\ token = None
    /\ stdin = <<>>
    /\ stdout = <<>>
    /\ requests = <<>>
    /\ response = None
    /\ exit_code = 0

(* cli.parse(): a fresh process, dispatched to the handler of subcommand c *)
run(c, a) ==
    /\ pc = "idle"
    /\ pc' = "start"
    /\ cmd' = c
    /\ args' = a
    /\ token' = None
    /\ stdin' = <<>>
    /\ stdout' = <<>>
    /\ requests' = <<>>
    /\ response' = None
    /\ exit_code' = 0
    /\ UNCHANGED <<token_file, last_auth>>

(* the process ends: nothing but the token file outlives it *)
process_exit ==
    /\ pc \in {"done", "crashed"}
    /\ pc' = "idle"
    /\ cmd' = "none"
    /\ args' = DefaultArgs
    /\ token' = None
    /\ stdin' = <<>>
    /\ stdout' = <<>>
    /\ requests' = <<>>
    /\ response' = None
    /\ exit_code' = 0
    /\ UNCHANGED <<token_file, last_auth>>

(* the handler returns *)
Return(out) ==
    /\ pc' = "done"
    /\ stdout' = stdout \o out
    /\ exit_code' = 0

(* sys.exit(code) after writing out *)
Exit(out, code) ==
    /\ pc' = "done"
    /\ stdout' = stdout \o out
    /\ exit_code' = code

(* an exception nobody catches: traceback on stderr, exit status 1 *)
Crash ==
    /\ pc' = "crashed"
    /\ exit_code' = 1
    /\ UNCHANGED stdout

(* LoadToken with the failure of get_access_token() swallowed *)
LoadToken_Swallow(at) ==
    /\ pc = at
    /\ token' = IF get_access_token.ok THEN Some(get_access_token.token)
                ELSE None
    /\ pc' = "loaded"
    /\ UNCHANGED <<token_file, last_auth, cmd, args, stdin, stdout, requests,
                   response, exit_code>>

(* params = {'access_token': utils.get_access_token()} at position at *)
LoadToken(at) ==
    /\ pc = at
    /\ IF get_access_token.ok
       THEN /\ token' = Some(get_access_token.token)
            /\ pc' = "loaded"
            /\ UNCHANGED <<stdout, exit_code>>
       ELSE /\ Exit(<<MsgMissingCredentials>>, 1)
            /\ UNCHANGED token
    /\ UNCHANGED <<token_file, last_auth, cmd, args, stdin, requests,
                   response>>

Request(method, url, json) ==
    [method |-> method, url |-> url, json |-> json,
     params |-> [access_token |-> token]]

(* WriteTokenFile with the file opened for appending *)
WriteTokenFile_Append(t) ==
    [exists |-> TRUE, data |-> token_file.data \o t \o <<"\n">>]

(* open(__token_file__, 'w'); print(args.token, file=f) *)
WriteTokenFile(t) == [exists |-> TRUE, data |-> t \o <<"\n">>]

auth_command ==
    /\ pc = "start"
    /\ cmd = "auth"
    /\ token_file' = WriteTokenFile(args.token)
    /\ last_auth' = Some([token |-> args.token, before |-> token_file])
    /\ Return(<<MsgAuthStored>>)
    /\ UNCHANGED <<cmd, args, token, stdin, requests, response>>

-----------------------------------------------------------------------------
(* list *)

list_load == cmd = "list" /\ LoadToken("start")

RECURSIVE MaxNameLen(_)
MaxNameLen(rows) ==
    IF rows = <<>> THEN 0
    ELSE LET rest == MaxNameLen(Tail(rows))
         IN  IF Len(Head(rows).name) >= rest THEN Len(Head(rows).name)
             ELSE rest

(* one swatch per row; the escape codes of colored and x256 are opaque *)
ListLine(row, spacing, show_colors) ==
    "bg(" \o row.color \o ")" \o "fg(" \o row.color \o ")" \o " "
    \o Center(row.name, spacing) \o " " \o "attr(0)" \o " "
    \o (IF show_colors THEN "[#" \o row.color \o "]" ELSE "")

ListLines(rows, show_colors) ==
    [i \in DOMAIN rows |-> ListLine(rows[i], MaxNameLen(rows), show_colors)]

list_request(resp) ==
    /\ pc = "loaded"
    /\ cmd = "list"
    /\ requests' = Append(requests,
           Request("GET", github_url \o "/repos/" \o args.repo \o "/labels",
                   <<>>))
    /\ IF BodyLen(resp.body) = 0
       THEN Exit(<<MsgNoLabels>>, 0)
       ELSE IF resp.body.kind = "array"
            THEN Return(ListLines(resp.body.items, args.show_colors))
            ELSE Crash   \* x['name'] on a key of the error object
    /\ response' = Some(resp)
    /\ UNCHANGED <<token_file, last_auth, cmd, args, token, stdin>>

-----------------------------------------------------------------------------
(* create *)

create_load == cmd = "create" /\ LoadToken("start")

(* the else branch of create and update: the lines printed on failure *)
FailureLines(body, name, generic) ==
    LET errors == IF IsValidationFailed(body)
                  THEN [i \in DOMAIN body.errors |->
                          parse_validation_error(name, body.errors[i])]
                  ELSE <<>>
    IN  IF Len(errors) = 0 THEN <<generic>> ELSE errors

(* CreateOutput with every 2xx status taken for success *)
CreateOutput_Any2xx(resp, name) ==
    IF resp.status >= 200 /\ resp.status < 300 THEN <<MsgCreated>>
    ELSE FailureLines(resp.body, name, MsgCreateFailed)

CreateOutput(resp, name) ==
    IF resp.status = HTTP_CREATED THEN <<MsgCreated>>
    ELSE FailureLines(resp.body, name, MsgCreateFailed)

(* CreateRequests with one retry of a request that did not succeed *)
CreateRequests_Retry(resp, name) ==
    LET req == Request("POST",
                       github_url \o "/repos/" \o args.repo \o "/labels",
                       [name |-> name, color |-> args.color[1]])
    IN  IF resp.status = HTTP_CREATED THEN <<req>> ELSE <<req, req>>

(* requests.post(url, json=payload, params=params): the requests sent *)
CreateRequests(resp, name) ==
    <<Request("POST", github_url \o "/repos/" \o args.repo \o "/labels",
              [name |-> name, color |-> args.color[1]])>>

create_request(resp) ==
    /\ pc = "loaded"
    /\ cmd = "create"
    /\ LET name == Join(args.name[1])
       IN  /\ requests' = requests \o CreateRequests(resp, name)
           /\ Return(CreateOutput(resp, name))
    /\ response' = Some(resp)
    /\ UNCHANGED <<token_file, last_auth, cmd, args, token, stdin>>

-----------------------------------------------------------------------------
(* delete *)

(* Confirm with the default answer turned into "yes" *)
Confirm_DefaultYes(choice) ==
    LET c == Lower(choice)
    IN  IF c = <<"n">> \/ c = <<"n", "o">> THEN "return"
        ELSE IF c = <<>> \/ c = <<"y">> \/ c = <<"y", "e", "s">> THEN "break"
        ELSE "again"

(* while not args.force: what the answer read by input() decides *)
Confirm(choice) ==
    LET c == Lower(choice)
    IN  IF c = <<>> \/ c = <<"n">> \/ c = <<"n", "o">> THEN "return"
        ELSE IF c = <<"y">> \/ c = <<"y", "e", "s">> THEN "break"
        ELSE "again"

(* NeedsConfirmation with the force flag ignored *)
NeedsConfirmation_Always == TRUE

NeedsConfirmation == ~args.force

delete_prompt(choice) ==
    /\ pc = "start"
    /\ cmd = "delete"
    /\ NeedsConfirmation
    /\ Len(stdin) < MaxPrompts
    /\ stdout' = Append(stdout, Question(Join(args.name[1])) \o Prompt)
    /\ stdin' = Append(stdin, choice)
    /\ pc' = CASE Confirm(choice) = "return" -> "done"
               [] Confirm(choice) = "break" -> "confirmed"
               [] OTHER -> "start"
    /\ exit_code' = 0
    /\ UNCHANGED <<token_file, last_auth, cmd, args, token, requests,
                   response>>

delete_load ==
    /\ cmd = "delete"
    /\ \/ LoadToken("confirmed")
       \/ ~NeedsConfirmation /\ LoadToken("start")

(* DeleteOutput without the 404 branch *)
DeleteOutput_No404(status, name, repo) ==
    IF status = HTTP_NO_CONTENT THEN <<MsgRemoved>>
    ELSE <<MsgCreateFailed>>

DeleteOutput(status, name, repo) ==
    IF status = HTTP_NO_CONTENT THEN <<MsgRemoved>>
    ELSE IF status = HTTP_NOT_FOUND THEN <<MsgNotExist(name, repo)>>
    ELSE <<MsgCreateFailed>>

delete_request(resp) ==
    /\ pc = "loaded"
    /\ cmd = "delete"
    /\ LET name == Join(args.name[1])
       IN  /\ requests' = Append(requests,
                  Request("DELETE", github_url \o "/repos/" \o args.repo
                                    \o "/labels/" \o name, <<>>))
           /\ Return(DeleteOutput(resp.status, name, args.repo))
    /\ response' = Some(resp)
    /\ UNCHANGED <<token_file, last_auth, cmd, args, token, stdin>>

-----------------------------------------------------------------------------
(* update *)

(* AnyGiven with the usage check dropped *)
AnyGiven_Unchecked == TRUE

(* any([args.color, args.name]) *)
AnyGiven == TruthyStr(args.color) \/ TruthyList(args.name)

update_check ==
    /\ pc = "start"
    /\ cmd = "update"
    /\ IF ~AnyGiven
       THEN Exit(<<MsgUsage>>, 1)
       ELSE /\ pc' = "checked"
            /\ UNCHANGED <<stdout, exit_code>>
    /\ UNCHANGED <<token_file, last_auth, cmd, args, token, stdin, requests,
                   response>>

update_load == cmd = "update" /\ LoadToken("checked")

(* { k: v for k, v in vars(args).items() if k in ['color', 'name'] and v } *)
(* with the words of 'name' joined                                        *)
UpdatePayload(a) ==
    LET keys == {k \in {"color", "name"} :
                   \/ k = "color" /\ TruthyStr(a.color)
                   \/ k = "name" /\ TruthyList(a.name)}
    IN  [k \in keys |-> IF k = "name" THEN Join(a.name[1]) ELSE a.color[1]]

UpdateUrl(a) ==
    github_url \o "/repos/" \o a.repo \o "/labels/" \o Join(a.label_name)

UpdateOutput(resp, name) ==
    IF resp.status = HTTP_OK THEN <<MsgUpdated>>
    ELSE FailureLines(resp.body, name, MsgUpdateFailed)

update_request(resp) ==
    /\ pc = "loaded"
    /\ cmd = "update"
    /\ requests' = Append(requests,
           Request("PATCH", UpdateUrl(args), UpdatePayload(args)))
    /\ Return(UpdateOutput(resp, Join(args.label_name)))
    /\ response' = Some(resp)
    /\ UNCHANGED <<token_file, last_auth, cmd, args, token, stdin>>

-----------------------------------------------------------------------------

Next ==
    \/ \E c \in Commands : \E a \in ArgsOf(c) : run(c, a)
    \/ auth_command
    \/ list_load
    \/ \E resp \in ListResponses : list_request(resp)
    \/ create_load
    \/ \E resp \in CreateResponses : create_request(resp)
    \/ \E choice \in Choices : delete_prompt(choice)
    \/ delete_load
    \/ \E resp \in DeleteResponses : delete_request(resp)
    \/ update_check
    \/ update_load
    \/ \E resp \in UpdateResponses : update_request(resp)
    \/ process_exit

Spec == Init /\ [][Next]_vars

-----------------------------------------------------------------------------
(* Properties *)

Last(q) == q[Len(q)]

YesAnswers ==
    { <<"y">>, <<"Y">>, <<"y", "e", "s">>, <<"Y", "E", "S">>,
      <<"Y", "e", "s">> }
NoAnswers ==
    { <<>>, <<"n">>, <<"N">>, <<"n", "o">>, <<"N", "O">>, <<"N", "o">> }

(* what delete wrote to standard output: its prompts, then its outcome *)
DeletePromptText ==
    "Are you sure you want to delete '" \o Join(args.name[1]) \o "'?"
    \o " [y/N] "
PromptsWritten == {i \in DOMAIN stdout : stdout[i] = DeletePromptText}
Outcome == SubSeq(stdout, Len(stdin) + 1, Len(stdout))

(* C1: in delete without --force a DELETE request is sent only after the  *)
(* answer y or yes in any case; the answers "", n and no in any case end  *)
(* the command with no request and no outcome message; any other answer   *)
(* sends no request and leaves the command at the prompt, to ask again.   *)
C1_ConfirmBeforeDelete ==
    (cmd = "delete" /\ ~args.force) =>
        /\ PromptsWritten = 1..Len(stdin)
        /\ \A i \in 1..(Len(stdin) - 1) : stdin[i] \notin YesAnswers \cup NoAnswers
        /\ requests # <<>> => (stdin # <<>> /\ Last(stdin) \in YesAnswers)
        /\ (stdin # <<>> /\ Last(stdin) \in NoAnswers) =>
               (pc = "done" /\ requests = <<>> /\ Outcome = <<>>
                /\ exit_code = 0)
        /\ (stdin # <<>> /\ Last(stdin) \notin YesAnswers \cup NoAnswers) =>
               (pc = "start" /\ requests = <<>> /\ Outcome = <<>>)
        /\ stdin = <<>> => (pc = "start" /\ requests = <<>>)

C1_Witness ==
    /\ cmd = "delete" /\ ~args.force
    /\ stdin = << <<"o", "k">>, <<"Y", "E", "S">> >>
    /\ Len(requests) = 1
    /\ requests[1].method = "DELETE"

(* C2 as stated: delete with --force performs exactly one network call   *)
(* and neither writes the prompt nor reads input.                         *)
C2_ForceExactlyOneCall ==
    (cmd = "delete" /\ args.force /\ pc = "done") =>
        (Len(requests) = 1 /\ stdin = <<>> /\ PromptsWritten = {})

(* C2 amended: delete with --force never writes the prompt nor reads      *)
(* input, and once it has ended it has sent exactly one request, the      *)
(* DELETE, if the token was loaded and none if the token load failed.     *)
C2_ForceNoPrompt ==
    (cmd = "delete" /\ args.force) =>
        /\ stdin = <<>>
        /\ PromptsWritten = {}
        /\ \A i \in DOMAIN requests : requests[i].method = "DELETE"
        /\ pc = "done" =>
               Len(requests) = (IF token # None THEN 1 ELSE 0)

C2_Witness ==
    /\ cmd = "delete" /\ args.force /\ pc = "done"
    /\ Len(requests) = 1
    /\ stdout = <<"Label successfully removed">>

(* C3: update with neither --name nor --color exits non-zero and sends no *)
(* request; it ends at the usage check, before the token is loaded.       *)
C3_UpdateUsageError ==
    (cmd = "update" /\ args.name = None /\ args.color = None) =>
        /\ pc \in {"start", "done"}
        /\ requests = <<>>
        /\ token = None
        /\ pc = "done" => (exit_code # 0 /\ stdout # <<>>
                           /\ stdout # <<MsgMissingCredentials>>)

C3_Witness ==
    /\ cmd = "update" /\ args.name = None /\ args.color = None
    /\ pc = "done" /\ exit_code = 1
    /\ token_file.exists

(* C4: a request is sent only by list, create, delete and update, and     *)
(* only after the token load of that run succeeded; the request carries   *)
(* the loaded token; auth sends no request.                               *)
C4_TokenBeforeRequest ==
    /\ cmd = "auth" => requests = <<>>
    /\ requests # <<>> =>
           /\ cmd \in {"list", "create", "delete", "update"}
           /\ token # None
           /\ token_file.exists
           /\ \A i \in DOMAIN requests :
                  requests[i].params.access_token = token
    /\ (pc = "done" /\ stdout # <<>> /\ Last(stdout) = MsgMissingCredentials)
           => requests = <<>>

C4_Witness ==
    /\ cmd = "delete" /\ ~args.force
    /\ requests # <<>>
    /\ token = Some(<<"b">>)

(* C5: no run sends more than one request, whatever the response.         *)
C5_AtMostOneRequest == Len(requests) <= 1

C5_Witness ==
    /\ cmd = "create" /\ pc = "done"
    /\ response # None /\ response[1].status = 422
    /\ Len(requests) = 1

(* C6: no handler ends with an uncaught exception; a run that got a       *)
(* response ends by printing a message.                                   *)
C6_NoUncaughtException ==
    /\ pc # "crashed"
    /\ (pc = "done" /\ response # None) => stdout # <<>>

(* C7: the token file exists exactly when an auth has run, and then holds *)
(* the token of the most recent auth followed by one newline, and nothing *)
(* of what it held before.                                                *)
C7_TokenFileHoldsLastAuth ==
    /\ token_file.exists <=> last_auth # None
    /\ last_auth # None =>
           /\ token_file.data = last_auth[1].token \o <<"\n">>
           /\ Cardinality({i \in DOMAIN token_file.data :
                             token_file.data[i] = "\n"}) = 1
    /\ ~token_file.exists => token_file.data = <<>>

C7_Witness ==
    /\ last_auth # None
    /\ last_auth[1].before.exists
    /\ last_auth[1].before.data = <<"a", "\n">>
    /\ token_file.data = <<"b", "\n">>
    /\ cmd = "delete" /\ pc = "done"

(* C8: delete prints exactly one outcome message per request: the success *)
(* message for 204, the "doesn't exist" message naming the label and the  *)
(* repository for 404, the generic failure message for any other status.  *)
C8_DeleteOutcome ==
    (cmd = "delete" /\ response # None) =>
        /\ Len(requests) = 1
        /\ Len(Outcome) = 1
        /\ Outcome[1] =
             CASE response[1].status = 204 -> "Label successfully removed"
               [] response[1].status = 404 ->
                    "The label '" \o Join(args.name[1])
                    \o "' doesn't exist in " \o args.repo \o "."
               [] OTHER -> "Failed to create label."

C8_Witness ==
    /\ cmd = "delete" /\ response # None
    /\ response[1].status = 404
    /\ args.name = Some(<<"good", "first">>)
    /\ Outcome = <<"The label 'good first' doesn't exist in octo/repo.">>

C9_WitnessErrors ==
    /\ cmd = "update" /\ response # None
    /\ response[1].status = 422
    /\ Len(response[1].body.errors) = 2
    /\ Len(stdout) = 2

(* C10: the PATCH of update is addressed by the old label name, its words *)
(* joined by spaces, and its payload has the key 'name' iff --name was    *)
(* given (the words joined by spaces), the key 'color' iff --color was    *)
(* given, and no other key.                                               *)
C10_PayloadIsWhatWasGiven ==
    (cmd = "update" /\ requests # <<>>) =>
        LET req == requests[1]
        IN  /\ req.method = "PATCH"
            /\ req.url = "https://api.github.com/repos/" \o args.repo
                         \o "/labels/" \o Join(args.label_name)
            /\ DOMAIN req.json \subseteq {"name", "color"}
            /\ ("name" \in DOMAIN req.json) <=> (args.name # None)
            /\ ("color" \in DOMAIN req.json) <=> (args.color # None)
            /\ "name" \in DOMAIN req.json =>
                   req.json["name"] = Join(args.name[1])
            /\ "color" \in DOMAIN req.json =>
                   req.json["color"] = args.color[1]

====
